---------------------------- MODULE Spec2Model ----------------------------
(***************************************************************************)
(* Model of the meme service of peachtokoto-server                         *)
(* (src/src/services/meme.rs and its callers in src/src/handlers).         *)
(*                                                                         *)
(* The service is one MemeService behind a tokio RwLock.  The constructor  *)
(* loads the catalog once, then spawns the reload listener; the notify     *)
(* watcher sends () on a broadcast channel of capacity 1; the listener     *)
(* rebuilds the catalog under the write guard; every HTTP handler works    *)
(* under a read guard that it keeps until it has built its response.       *)
(***************************************************************************)
EXTENDS Integers, Sequences, FiniteSets, TLC

(***************************************************************************)
(* Bounds of the model.                                                    *)
(***************************************************************************)
NumFiles == 3        \* file names that can exist in memes_dir
IdSpace == 2         \* size of the identifier space (2^32 in the program)
NumContents == 2     \* distinct byte contents a file can have
NumReq == 2          \* request handlers that can be in flight at once
MaxFsChanges == 2    \* changes made to memes_dir after the watcher started
MaxRequests == 2     \* requests served in one behaviour
MaxDim == 0          \* largest width or height a request names
MaxSize == 1         \* cache.max_size, the configured capacity (100 by default)
MaxCalls == 3        \* service calls made one after the other in CacheSpec
MaxNow == 750        \* last clock reading, in seconds, in CacheSpec

\* The calls and the seconds of clock of the request-window specification.
MaxWindowCalls == 6
MaxMinuteNow == 120
MaxWindowNow == 960

\* Program constants.
REQUEST_HISTORY_WINDOW == 900  \* seconds
ONE_MINUTE == 60
FIVE_MINUTES == 300
FIFTEEN_MINUTES == 900
TtlSecs == 300                 \* cache.ttl_secs, the configured default

Files == 1..NumFiles
Ids == 1..IdSpace
Contents == 1..NumContents
Req == 1..NumReq
LoopP == NumReq + 1  \* the task spawned by start_reload_listener
CtorP == NumReq + 2  \* the caller of MemeService::new
Rebuilders == {LoopP, CtorP}

VARIABLES
    disk,               \* memes_dir: file name -> 0 (absent) or its content
    fs_changes,         \* number of changes made to memes_dir so far
    rx_cnt,             \* broadcast channel: number of live receivers
    rx_lag,             \* broadcast channel: tail.pos - rx.next of the receiver
    lock_writer,        \* RwLock: holder of the write guard, 0 if none
    lock_readers,       \* RwLock: holders of read guards
    lock_queue,         \* RwLock: FIFO of waiters, <<process, "r" | "w">>
    memes,              \* MemeService.memes
    meme_ids,           \* MemeService.meme_ids
    total_count,        \* MemeService.total_count
    content_cache,      \* MemeService.content_cache
    resized_cache,      \* MemeService.resized_cache
    last_updated,       \* MemeService.last_updated
    request_count,      \* MemeService.request_count
    cache_hits,         \* MemeService.cache_hits
    cache_misses,       \* MemeService.cache_misses
    request_timestamps, \* MemeService.request_timestamps
    now,                \* the monotonic clock read by Instant::now()
    ctor_pc,            \* position of MemeService::new
    loop_pc,            \* position of the reload listener task
    rl_pc,              \* reload_memes: position, per caller
    rl_todo,            \* reload_memes: directory entries not yet returned
    rl_memes,           \* reload_memes: the local map `memes`
    rl_count,           \* reload_memes: the local `count`
    rl_result,          \* reload_memes: the Result it returned last
    req_pc,             \* position of each request handler
    req_op,             \* the request each handler serves
    req_meme,           \* get_by_id / get_random: the &Meme looked up
    req_bytes,          \* get_resized_image: original_content
    req_res,            \* the Result the service call returned
    req_started,        \* number of requests accepted so far
    req_now,            \* get_requests_in_window: the local `now`
    last_good,          \* history: the map built by the last successful scan
    n_bursts,           \* history: bursts of signals accepted by the channel
    n_rebuilds,         \* history: rebuilds started by the listener
    recorded,           \* history: every instant record_request has pushed
    render_failed,      \* history: resized-cache keys whose render has failed
    req_trace           \* history: what the call in progress has looked up and counted

envVars == <<disk, fs_changes>>
chanVars == <<rx_cnt, rx_lag>>
lockVars == <<lock_writer, lock_readers, lock_queue>>
catalogVars == <<memes, meme_ids, total_count, last_updated>>
cacheVars == <<content_cache, resized_cache>>
statVars == <<request_count, cache_hits, cache_misses, request_timestamps, now>>
reloadVars == <<rl_pc, rl_todo, rl_memes, rl_count, rl_result>>
reqVars == <<req_pc, req_op, req_meme, req_bytes, req_res, req_started, req_now>>
rebuildHist == <<last_good, n_bursts, n_rebuilds>>
histVars == <<rebuildHist, recorded, render_failed, req_trace>>
vars == <<envVars, chanVars, lockVars, catalogVars, cacheVars, statVars,
          ctor_pc, loop_pc, reloadVars, reqVars, histVars>>

----------------------------------------------------------------------------
(***************************************************************************)
(* Values.                                                                 *)
(***************************************************************************)

\* The empty HashMap / empty cache.
EmptyMap == [x \in {} |-> 0]

\* m with key k bound to v (HashMap::insert, Cache::insert).
MapPut(m, k, v) == [x \in (DOMAIN m) \cup {k} |-> IF x = k THEN v ELSE m[x]]

\* Sha256 of the file name cut to its first four bytes: a fixed function of
\* the name into the identifier space, not injective.
HashId(f) == (f % IdSpace) + 1

\* Mutant: the Meme record carries a number of its own, not the hash under
\* which it is stored.
MakeMeme_OwnId(f) == [id |-> f, filename |-> f]

\* The Meme record built for a directory entry.
MakeMeme(f) == [id |-> HashId(f), filename |-> f]

\* Mutant: the id is looked up in the content cache, not in the catalog.
HasMeme_InCache(m, id) == id \in DOMAIN content_cache

\* HashMap::get(&id) finds an entry.
HasMeme(m, id) == id \in DOMAIN m

\* No Meme looked up yet.
NoMeme == [id |-> 0, filename |-> 0]

\* The bytes tokio::fs::read returns for file f holding content c.
FileBytes(f, c) == <<f, c>>

\* All orders in which HashMap::keys can yield the keys of m.
RECURSIVE Perms(_)
Perms(S) ==
    IF S = {} THEN {<<>>}
    ELSE UNION {{<<x>> \o p : p \in Perms(S \ {x})} : x \in S}

KeyOrders(m) == Perms(DOMAIN m)

\* The values of a sequence.
Range(sq) == {sq[i] : i \in 1..Len(sq)}

\* Option<u32>: <<>> is None, <<n>> is Some(n).
Dims == {<<>>} \cup {<<n>> : n \in 0..MaxDim}

\* Option::unwrap_or.
UnwrapOr(o, d) == IF o = <<>> THEN d ELSE o[1]

\* A handler with no request, and a call that has not returned.
NoOp == [op |-> "none", id |-> 0, w |-> <<>>, h |-> <<>>]
NoResult == [kind |-> "none", id |-> 0, val |-> <<>>]

\* The history of one service call: how often it counted the request and
\* pushed a timestamp, how many cache lookups found an entry and how many
\* found none, and how often it added to cache_hits and cache_misses.
ZeroTrace ==
    [counted |-> 0, stamped |-> 0, found |-> 0, missed |-> 0, hits |-> 0, misses |-> 0]

\* Ok((meme, content)) and the errors of AppError a service call returns.
OkResult(id, content) == [kind |-> "ok", id |-> id, val |-> content]
ErrResult(kind) == [kind |-> kind, id |-> 0, val |-> <<>>]

\* The requests of the HTTP routes: get by id, random, list, count, statistics.
RouteOps ==
    [op : {"get"}, id : Ids, w : {<<>>}, h : {<<>>}]
    \cup [op : {"random", "list", "count", "stats"}, id : {0}, w : {<<>>}, h : {<<>>}]

\* The calls of get_resized_image.
ResizedOps == [op : {"resized"}, id : Ids, w : Dims, h : Dims]

\* Call o is a get_resized_image that names a dimension (lines 369-371 do
\* not return): the bytes get_by_id gives it go on to the render.
Renders(o) == o.op = "resized" /\ ~(o.w = <<>> /\ o.h = <<>>)

\* Mutant: Cache::get returns an entry however old it is.
CacheHas_NoTtl(cache, k, ttl) == k \in DOMAIN cache

\* Mutant: Cache::get never finds an entry.
CacheHas_Never(cache, k, ttl) == FALSE

\* moka Cache::get: the value under key k, if there is an entry that has not
\* outlived its time to live.
CacheHas(cache, k, ttl) == k \in DOMAIN cache /\ now - cache[k].at < ttl

\* moka Cache::insert at the current time.  The entry also records, as
\* history, the catalog version it was inserted under and the dimensions
\* asked for by the call that inserted it.
CachePutBy(cache, k, v, dims) ==
    MapPut(cache, k, [val |-> v, at |-> now, epoch |-> last_updated, by |-> dims])

CachePut(cache, k, v) == CachePutBy(cache, k, v, <<>>)

\* The keys of cache that Cache::get can return at the current time.
LiveKeys(cache, ttl) == {k \in DOMAIN cache : CacheHas(cache, k, ttl)}

\* moka's pending maintenance applied to a cache over its max_capacity: the
\* expired entries go, and of the others as many as the capacity allows stay;
\* which ones is the eviction policy's choice.
Evicted(cache, cap, ttl) ==
    IF Cardinality(DOMAIN cache) <= cap THEN {cache}
    ELSE LET live == LiveKeys(cache, ttl)
             keep == IF Cardinality(live) <= cap THEN {live}
                     ELSE {K \in SUBSET live : Cardinality(K) = cap}
         IN  {[k \in K |-> cache[k]] : K \in keep}

\* Mutant: the elements of S in descending order.
RECURSIVE SortedSeq_Descending(_)
SortedSeq_Descending(S) ==
    IF S = {} THEN <<>>
    ELSE LET m == CHOOSE x \in S : \A y \in S : x >= y
         IN  <<m>> \o SortedSeq_Descending(S \ {m})

\* The elements of the set S of integers in ascending order (sort_by_key).
RECURSIVE SortedSeq(_)
SortedSeq(S) ==
    IF S = {} THEN <<>>
    ELSE LET m == CHOOSE x \in S : \A y \in S : x <= y
         IN  <<m>> \o SortedSeq(S \ {m})

\* The key of the resized cache: format!("{}:{}x{}", id, w or 0, h or 0).
\* Decimal numbers separated by ':' and 'x' read back uniquely, so the string
\* is the triple of the three numbers printed.
ResizedKey(id, w, h) == <<id, UnwrapOr(w, 0), UnwrapOr(h, 0)>>

\* image::load_from_memory succeeds on these bytes.
Decodable(bytes) == bytes[2] = 1

\* Width and height of a decoded image.
ImgWidth(bytes) == 1
ImgHeight(bytes) == 1

\* The PNG written for the original bytes resized to the target bounds.
Rendered(bytes, w, h) ==
    <<bytes, UnwrapOr(w, ImgWidth(bytes)), UnwrapOr(h, ImgHeight(bytes))>>

\* Mutant: the front is pruned of the timestamps older than one minute.
RECURSIVE PruneFront_OneMinute(_, _)
PruneFront_OneMinute(ts, t) ==
    IF ts # <<>> /\ t - Head(ts) > ONE_MINUTE
    THEN PruneFront_OneMinute(Tail(ts), t)
    ELSE ts

\* record_request: drop the timestamps at the front that are older than the
\* history window, then push the current instant.
RECURSIVE PruneFront(_, _)
PruneFront(ts, t) ==
    IF ts # <<>> /\ t - Head(ts) > REQUEST_HISTORY_WINDOW
    THEN PruneFront(Tail(ts), t)
    ELSE ts

\* Mutant: record_request pushes the instant without pruning the front.
RecordRequest_NoPrune(ts, t) == Append(ts, t)

RecordRequest(ts, t) == Append(PruneFront(ts, t), t)

\* get_requests_in_window, lines 282-285: the timestamps within window w of t.
CountIn(ts, t, w) == Cardinality({i \in 1..Len(ts) : t - ts[i] <= w})

----------------------------------------------------------------------------
(***************************************************************************)
(* tokio::sync::RwLock: a fair semaphore.  A guard is granted at once when *)
(* nobody waits and the mode is compatible; otherwise the caller queues    *)
(* and guards are handed out from the head of the queue on release.        *)
(***************************************************************************)

\* Mutant: a read guard is granted while the write guard is held.
CanRead_IgnoresWriter(w, rs, q) == q = <<>>

\* Mutant: a read guard is granted although a writer waits in the queue.
CanRead_Unfair(w, rs, q) == w = 0

CanRead(w, rs, q) == w = 0 /\ q = <<>>

\* Mutant: the write guard is granted while read guards are out.
CanWrite_IgnoresReaders(w, rs, q) == w = 0 /\ q = <<>>

CanWrite(w, rs, q) == w = 0 /\ rs = {} /\ q = <<>>

\* Hand guards to the waiters at the head of queue q.
RECURSIVE Grant(_, _, _)
Grant(w, rs, q) ==
    IF q = <<>> \/ w # 0 THEN <<w, rs, q>>
    ELSE IF Head(q)[2] = "r" THEN Grant(w, rs \cup {Head(q)[1]}, Tail(q))
    ELSE IF rs = {} THEN <<Head(q)[1], rs, Tail(q)>>
    ELSE <<w, rs, q>>

\* RwLock::read().await by process p: take the guard or join the queue.
AcquireRead(p) ==
    IF CanRead(lock_writer, lock_readers, lock_queue)
    THEN /\ lock_readers' = lock_readers \cup {p}
         /\ UNCHANGED <<lock_writer, lock_queue>>
    ELSE /\ lock_queue' = Append(lock_queue, <<p, "r">>)
         /\ UNCHANGED <<lock_writer, lock_readers>>

\* Mutant: the write guard is taken without waiting for anybody.
AcquireWrite_NoWait(p) ==
    /\ lock_writer' = p
    /\ UNCHANGED <<lock_readers, lock_queue>>

\* RwLock::write().await by process p.
AcquireWrite(p) ==
    IF CanWrite(lock_writer, lock_readers, lock_queue)
    THEN /\ lock_writer' = p
         /\ UNCHANGED <<lock_readers, lock_queue>>
    ELSE /\ lock_queue' = Append(lock_queue, <<p, "w">>)
         /\ UNCHANGED <<lock_writer, lock_readers>>

\* Dropping the guard of process p.
Release(p) ==
    LET w == IF lock_writer = p THEN 0 ELSE lock_writer
        rs == lock_readers \ {p}
        g == Grant(w, rs, lock_queue)
    IN  /\ lock_writer' = g[1]
        /\ lock_readers' = g[2]
        /\ lock_queue' = g[3]

HoldsRead(p) == p \in lock_readers
HoldsWrite(p) == lock_writer = p

----------------------------------------------------------------------------
(***************************************************************************)
(* Initial state: MemeService::new has created the channel, registered the *)
(* watcher, built the two caches and the service value (lines 44-96) and   *)
(* is about to take the write guard for the initial load.  The directory   *)
(* is empty or holds all files but the last.                               *)
(***************************************************************************)
Init ==
    /\ disk \in {[f \in Files |-> 0], [f \in Files |-> IF f < NumFiles THEN 1 ELSE 0]}
    /\ fs_changes = 0
    /\ rx_cnt = 0
    /\ rx_lag = 0
    /\ lock_writer = 0
    /\ lock_readers = {}
    /\ lock_queue = <<>>
    /\ memes = EmptyMap
    /\ meme_ids = <<>>
    /\ total_count = 0
    /\ content_cache = EmptyMap
    /\ resized_cache = EmptyMap
    /\ last_updated = 0
    /\ request_count = 0
    /\ cache_hits = 0
    /\ cache_misses = 0
    /\ request_timestamps = <<>>
    /\ now = 0
    /\ ctor_pc = "load"
    /\ loop_pc = "unspawned"
    /\ rl_pc = [p \in Rebuilders |-> "idle"]
    /\ rl_todo = [p \in Rebuilders |-> {}]
    /\ rl_memes = [p \in Rebuilders |-> EmptyMap]
    /\ rl_count = [p \in Rebuilders |-> 0]
    /\ rl_result = [p \in Rebuilders |-> "none"]
    /\ req_pc = [r \in Req |-> "idle"]
    /\ req_op = [r \in Req |-> NoOp]
    /\ req_meme = [r \in Req |-> NoMeme]
    /\ req_bytes = [r \in Req |-> <<>>]
    /\ req_res = [r \in Req |-> NoResult]
    /\ req_started = 0
    /\ req_now = [r \in Req |-> 0]
    /\ last_good = EmptyMap
    /\ n_bursts = 0
    /\ n_rebuilds = 0
    /\ recorded = <<>>
    /\ render_failed = {}
    /\ req_trace = [r \in Req |-> ZeroTrace]

----------------------------------------------------------------------------
(***************************************************************************)
(* The directory and the notify watcher.                                   *)
(***************************************************************************)

\* The listener waits in rx.recv() and has consumed every signal sent so far.
ListenerIdle == loop_pc = "recv" /\ rx_lag = 0

\* broadcast::Sender::send: fails when no receiver is subscribed, else the
\* value takes the single slot and the tail position advances.  A signal
\* sent while the listener is idle opens a new burst; one sent while the
\* listener still has signals to handle joins the burst in progress.
ChannelSend ==
    IF rx_cnt = 0
    THEN UNCHANGED <<rx_cnt, rx_lag, n_bursts>>
    ELSE /\ rx_lag' = rx_lag + 1
         /\ n_bursts' = IF ListenerIdle THEN n_bursts + 1 ELSE n_bursts
         /\ UNCHANGED rx_cnt

\* The closure given to notify::recommended_watcher, called with Ok(event)
\* (lines 49-62): it sends the reload signal.
WatcherCallback == ChannelSend

\* A change to memes_dir, seen by the watcher registered at line 65: file f
\* gets content c (0 removes it) and the callback runs for the event.
FsChange(f, c) ==
    /\ ctor_pc # "failed"
    /\ fs_changes < MaxFsChanges
    /\ c # disk[f]
    /\ disk' = [disk EXCEPT ![f] = c]
    /\ fs_changes' = fs_changes + 1
    /\ WatcherCallback
    /\ UNCHANGED <<lockVars, catalogVars, cacheVars, statVars,
                   ctor_pc, loop_pc, reloadVars, reqVars, last_good, n_rebuilds,
                   recorded, render_failed, req_trace>>

\* A file is created with its first content, or removed.
FsCreateRemove(f) == FsChange(f, IF disk[f] = 0 THEN 1 ELSE 0)

\* A file is rewritten with other bytes.
FsRewrite(f, c) == disk[f] # 0 /\ c # 0 /\ FsChange(f, c)

\* A file is created or removed once MemeService::new has returned the
\* service.
FsLate(f) == ctor_pc = "done" /\ FsCreateRemove(f)

\* A file is created or removed before MemeService::new reads the directory
\* for the initial load; the watcher of line 65 is registered already.
FsSettle(f) == ctor_pc = "load" /\ FsCreateRemove(f)

----------------------------------------------------------------------------
(***************************************************************************)
(* reload_memes(&mut self), run by process p under the write guard.        *)
(***************************************************************************)

\* Lines 108-111: fresh locals, read_dir opens the directory.
ReloadBegin(p) ==
    /\ rl_pc[p] = "begin"
    /\ HoldsWrite(p)
    /\ rl_pc' = [rl_pc EXCEPT ![p] = "scan"]
    /\ rl_todo' = [rl_todo EXCEPT ![p] = {f \in Files : disk[f] # 0}]
    /\ rl_memes' = [rl_memes EXCEPT ![p] = EmptyMap]
    /\ rl_count' = [rl_count EXCEPT ![p] = 0]
    /\ UNCHANGED <<envVars, chanVars, lockVars, catalogVars, cacheVars, statVars,
                   ctor_pc, loop_pc, rl_result, reqVars, histVars>>

\* Lines 112-153: next_entry returns a regular file; its Meme goes into the
\* local map under the hash of its name and count grows by one.
ReloadScanEntry(p, f) ==
    /\ rl_pc[p] = "scan"
    /\ f \in rl_todo[p]
    /\ rl_todo' = [rl_todo EXCEPT ![p] = @ \ {f}]
    /\ rl_memes' = [rl_memes EXCEPT ![p] = MapPut(@, HashId(f), MakeMeme(f))]
    /\ rl_count' = [rl_count EXCEPT ![p] = @ + 1]
    /\ UNCHANGED <<envVars, chanVars, lockVars, catalogVars, cacheVars, statVars,
                   ctor_pc, loop_pc, rl_pc, rl_result, reqVars, histVars>>

\* Lines 111-113: read_dir, next_entry or file_type fails; `?` returns the
\* error at once.
ReloadIoError(p) ==
    /\ rl_pc[p] = "scan"
    /\ rl_pc' = [rl_pc EXCEPT ![p] = "ret"]
    /\ rl_result' = [rl_result EXCEPT ![p] = "err_io"]
    /\ UNCHANGED <<envVars, chanVars, lockVars, catalogVars, cacheVars, statVars,
                   ctor_pc, loop_pc, rl_todo, rl_memes, rl_count, reqVars, histVars>>

\* Mutant: the check for an empty scan is missing.
ReloadScanEnd_NoEmptyCheck(p) ==
    /\ rl_pc[p] = "scan"
    /\ rl_todo[p] = {}
    /\ rl_pc' = [rl_pc EXCEPT ![p] = "install"]
    /\ last_good' = rl_memes[p]
    /\ UNCHANGED <<envVars, chanVars, lockVars, catalogVars, cacheVars, statVars,
                   ctor_pc, loop_pc, rl_todo, rl_memes, rl_count, rl_result, reqVars,
                   n_bursts, n_rebuilds, recorded, render_failed, req_trace>>

\* Lines 154-158: next_entry returns None; an empty scan is refused.
ReloadScanEnd(p) ==
    /\ rl_pc[p] = "scan"
    /\ rl_todo[p] = {}
    /\ IF rl_count[p] = 0
       THEN /\ rl_pc' = [rl_pc EXCEPT ![p] = "ret"]
            /\ rl_result' = [rl_result EXCEPT ![p] = "err_empty"]
            /\ UNCHANGED last_good
       ELSE /\ rl_pc' = [rl_pc EXCEPT ![p] = "install"]
            /\ last_good' = rl_memes[p]
            /\ UNCHANGED rl_result
    /\ UNCHANGED <<envVars, chanVars, lockVars, catalogVars, cacheVars, statVars,
                   ctor_pc, loop_pc, rl_todo, rl_memes, rl_count, reqVars,
                   n_bursts, n_rebuilds, recorded, render_failed, req_trace>>

\* Mutant: the write guard is dropped once the map is installed, before the
\* id vector, the count and the caches follow.
ReloadInstallMemes_EarlyRelease(p) ==
    /\ rl_pc[p] = "install"
    /\ memes' = rl_memes[p]
    /\ rl_pc' = [rl_pc EXCEPT ![p] = "ids"]
    /\ Release(p)
    /\ UNCHANGED <<envVars, chanVars, meme_ids, total_count, last_updated,
                   cacheVars, statVars, ctor_pc, loop_pc, rl_todo, rl_memes,
                   rl_count, rl_result, reqVars, histVars>>

\* Line 161: self.memes = memes.
ReloadInstallMemes(p) ==
    /\ rl_pc[p] = "install"
    /\ memes' = rl_memes[p]
    /\ rl_pc' = [rl_pc EXCEPT ![p] = "ids"]
    /\ UNCHANGED <<envVars, chanVars, lockVars, meme_ids, total_count, last_updated,
                   cacheVars, statVars, ctor_pc, loop_pc, rl_todo, rl_memes,
                   rl_count, rl_result, reqVars, histVars>>

\* Mutant: the id vector is only collected when it was empty, so a later
\* rebuild leaves the ids of the previous catalog in it.
ReloadInstallIds_KeepsOld(p) ==
    /\ rl_pc[p] = "ids"
    /\ IF meme_ids = <<>> THEN meme_ids' \in KeyOrders(memes) ELSE UNCHANGED meme_ids
    /\ total_count' = rl_count[p]
    /\ rl_pc' = [rl_pc EXCEPT ![p] = "invalidate"]
    /\ UNCHANGED <<envVars, chanVars, lockVars, memes, last_updated,
                   cacheVars, statVars, ctor_pc, loop_pc, rl_todo, rl_memes,
                   rl_count, rl_result, reqVars, histVars>>

\* Lines 163-164: the id vector is collected from the keys of the new map, in
\* the map's iteration order; total_count takes the local count.
ReloadInstallIds(p) ==
    /\ rl_pc[p] = "ids"
    /\ meme_ids' \in KeyOrders(memes)
    /\ total_count' = rl_count[p]
    /\ rl_pc' = [rl_pc EXCEPT ![p] = "invalidate"]
    /\ UNCHANGED <<envVars, chanVars, lockVars, memes, last_updated,
                   cacheVars, statVars, ctor_pc, loop_pc, rl_todo, rl_memes,
                   rl_count, rl_result, reqVars, histVars>>

\* Mutant: resized_cache.invalidate_all() is missing.
ReloadInvalidate_ContentOnly(p) ==
    /\ rl_pc[p] = "invalidate"
    /\ content_cache' = EmptyMap
    /\ last_updated' = last_updated + 1
    /\ rl_pc' = [rl_pc EXCEPT ![p] = "ret"]
    /\ rl_result' = [rl_result EXCEPT ![p] = "ok"]
    /\ UNCHANGED <<envVars, chanVars, lockVars, memes, meme_ids, total_count,
                   resized_cache, statVars, ctor_pc, loop_pc, rl_todo, rl_memes,
                   rl_count, reqVars, histVars>>

\* Lines 165-173: both caches are invalidated, last_updated is stamped with
\* a later wall-clock reading, Ok(()) is returned.
ReloadInvalidate(p) ==
    /\ rl_pc[p] = "invalidate"
    /\ content_cache' = EmptyMap
    /\ resized_cache' = EmptyMap
    /\ last_updated' = last_updated + 1
    /\ rl_pc' = [rl_pc EXCEPT ![p] = "ret"]
    /\ rl_result' = [rl_result EXCEPT ![p] = "ok"]
    /\ UNCHANGED <<envVars, chanVars, lockVars, memes, meme_ids, total_count,
                   statVars, ctor_pc, loop_pc, rl_todo, rl_memes, rl_count,
                   reqVars, histVars>>

\* The call has returned and its caller has looked at the Result: the
\* locals of reload_memes are gone.
ReloadLeave(p) ==
    /\ rl_pc' = [rl_pc EXCEPT ![p] = "idle"]
    /\ rl_todo' = [rl_todo EXCEPT ![p] = {}]
    /\ rl_memes' = [rl_memes EXCEPT ![p] = EmptyMap]
    /\ rl_count' = [rl_count EXCEPT ![p] = 0]
    /\ rl_result' = [rl_result EXCEPT ![p] = "none"]

----------------------------------------------------------------------------
(***************************************************************************)
(* MemeService::new, from the initial load on (lines 98-104).              *)
(***************************************************************************)

\* Line 99: service.write().await, then reload_memes is entered.
CtorLoad ==
    /\ ctor_pc = "load"
    /\ AcquireWrite(CtorP)
    /\ ctor_pc' = "loading"
    /\ rl_pc' = [rl_pc EXCEPT ![CtorP] = "begin"]
    /\ UNCHANGED <<envVars, chanVars, catalogVars, cacheVars, statVars,
                   loop_pc, rl_todo, rl_memes, rl_count, rl_result, reqVars, histVars>>

\* Lines 99-104: the guard is dropped; an error leaves new() through `?`,
\* otherwise the listener is spawned and the service is handed out.
CtorFinish ==
    /\ ctor_pc = "loading"
    /\ rl_pc[CtorP] = "ret"
    /\ Release(CtorP)
    /\ ReloadLeave(CtorP)
    /\ IF rl_result[CtorP] = "ok"
       THEN ctor_pc' = "done" /\ loop_pc' = "subscribe"
       ELSE ctor_pc' = "failed" /\ UNCHANGED loop_pc
    /\ UNCHANGED <<envVars, chanVars, catalogVars, cacheVars, statVars,
                   reqVars, histVars>>

----------------------------------------------------------------------------
(***************************************************************************)
(* The task of start_reload_listener (lines 176-196).                      *)
(***************************************************************************)

\* Lines 179-180: service.read().await.
LoopReadLock ==
    /\ loop_pc = "subscribe"
    /\ AcquireRead(LoopP)
    /\ loop_pc' = "subscribing"
    /\ UNCHANGED <<envVars, chanVars, catalogVars, cacheVars, statVars,
                   ctor_pc, reloadVars, reqVars, histVars>>

\* Lines 181-182: reload_tx.subscribe() gives a receiver positioned at the
\* tail; the read guard is dropped.
LoopSubscribe ==
    /\ loop_pc = "subscribing"
    /\ HoldsRead(LoopP)
    /\ rx_cnt' = rx_cnt + 1
    /\ rx_lag' = 0
    /\ Release(LoopP)
    /\ loop_pc' = "recv"
    /\ UNCHANGED <<envVars, catalogVars, cacheVars, statVars,
                   ctor_pc, reloadVars, reqVars, histVars>>

\* Line 185, rx.recv().await: with one value behind the tail it yields
\* Ok(()); with more than the capacity behind it yields Err(Lagged), which
\* ends the `while let`; with none it waits.
LoopRecv ==
    /\ loop_pc = "recv"
    /\ rx_lag > 0
    /\ IF rx_lag = 1
       THEN /\ rx_lag' = 0
            /\ loop_pc' = "write"
       ELSE /\ rx_lag' = 1
            /\ loop_pc' = "sleep"
    /\ UNCHANGED <<envVars, rx_cnt, lockVars, catalogVars, cacheVars, statVars,
                   ctor_pc, reloadVars, reqVars, histVars>>

\* Line 187: service.write().await.
LoopWriteLock ==
    /\ loop_pc = "write"
    /\ AcquireWrite(LoopP)
    /\ loop_pc' = "reload"
    /\ rl_pc' = [rl_pc EXCEPT ![LoopP] = "begin"]
    /\ n_rebuilds' = n_rebuilds + 1
    /\ UNCHANGED <<envVars, chanVars, catalogVars, cacheVars, statVars,
                   ctor_pc, rl_todo, rl_memes, rl_count, rl_result, reqVars,
                   last_good, n_bursts, recorded, render_failed, req_trace>>

\* Mutant: an error of reload_memes ends the task instead of being logged.
LoopReloadDone_StopsOnError ==
    /\ loop_pc = "reload"
    /\ rl_pc[LoopP] = "ret"
    /\ Release(LoopP)
    /\ loop_pc' = IF rl_result[LoopP] = "ok" THEN "recv" ELSE "stopped"
    /\ ReloadLeave(LoopP)
    /\ UNCHANGED <<envVars, chanVars, catalogVars, cacheVars, statVars,
                   ctor_pc, reqVars, histVars>>

\* Lines 187-190: reload_memes has returned; an error is logged; the write
\* guard is dropped and the loop receives again.
LoopReloadDone ==
    /\ loop_pc = "reload"
    /\ rl_pc[LoopP] = "ret"
    /\ Release(LoopP)
    /\ ReloadLeave(LoopP)
    /\ loop_pc' = "recv"
    /\ UNCHANGED <<envVars, chanVars, catalogVars, cacheVars, statVars,
                   ctor_pc, reqVars, histVars>>

\* Mutant: the task returns when the receive fails.
LoopBackoff_Exits ==
    /\ loop_pc = "sleep"
    /\ rx_cnt' = rx_cnt - 1
    /\ rx_lag' = 0
    /\ loop_pc' = "stopped"
    /\ UNCHANGED <<envVars, lockVars, catalogVars, cacheVars, statVars,
                   ctor_pc, reloadVars, reqVars, histVars>>

\* Lines 192-194: the sleep of one second ends, the receiver goes out of
\* scope and the outer loop starts over.
LoopBackoff ==
    /\ loop_pc = "sleep"
    /\ rx_cnt' = rx_cnt - 1
    /\ rx_lag' = 0
    /\ loop_pc' = "subscribe"
    /\ UNCHANGED <<envVars, lockVars, catalogVars, cacheVars, statVars,
                   ctor_pc, reloadVars, reqVars, histVars>>

----------------------------------------------------------------------------
(***************************************************************************)
(* Request handlers.  Each takes state.read().await first and keeps the    *)
(* guard until its response is built (handlers/meme.rs).                   *)
(***************************************************************************)

\* get_by_id, lines 332-356: look the id up, then try the content cache.  A
\* miss leaves the call at the disk read.  t1 is the history of the call so
\* far.
GetByIdLookup(r, o, id, t1) ==
    /\ IF ~HasMeme(memes, id)
       THEN /\ req_res' = [req_res EXCEPT ![r] = ErrResult("notfound")]
            /\ req_pc' = [req_pc EXCEPT ![r] = "done"]
            /\ req_trace' = [req_trace EXCEPT ![r] = t1]
            /\ UNCHANGED <<cache_hits, cache_misses, req_meme, req_bytes>>
       ELSE IF CacheHas(content_cache, id, TtlSecs)
       THEN /\ cache_hits' = cache_hits + 1
            /\ req_trace' = [req_trace EXCEPT ![r] =
                                [t1 EXCEPT !.found = @ + 1, !.hits = @ + 1]]
            /\ IF Renders(o)
               THEN /\ req_bytes' = [req_bytes EXCEPT ![r] = content_cache[id].val]
                    /\ req_pc' = [req_pc EXCEPT ![r] = "render"]
                    /\ UNCHANGED req_res
               ELSE /\ req_res' = [req_res EXCEPT ![r] =
                                      OkResult(id, content_cache[id].val)]
                    /\ req_pc' = [req_pc EXCEPT ![r] = "done"]
                    /\ UNCHANGED req_bytes
            /\ UNCHANGED <<cache_misses, req_meme>>
       ELSE /\ cache_misses' = cache_misses + 1
            /\ req_trace' = [req_trace EXCEPT ![r] =
                                [t1 EXCEPT !.missed = @ + 1, !.misses = @ + 1]]
            /\ req_meme' = [req_meme EXCEPT ![r] = memes[id]]
            /\ req_pc' = [req_pc EXCEPT ![r] = "read"]
            /\ UNCHANGED <<cache_hits, req_res, req_bytes>>

\* get_by_id, lines 328-356: count and record the request, then look the id
\* up.  t0 is the history of the call so far.
GetByIdFrom(r, o, id, t0) ==
    /\ request_count' = request_count + 1
    /\ request_timestamps' = RecordRequest(request_timestamps, now)
    /\ recorded' = Append(recorded, now)
    /\ GetByIdLookup(r, o, id, [t0 EXCEPT !.counted = @ + 1, !.stamped = @ + 1])
    /\ UNCHANGED <<resized_cache, content_cache>>

\* get_by_id called by a handler.
GetByIdEnter(r, o, id) == GetByIdFrom(r, o, id, ZeroTrace)

\* get_random, lines 199-235: as get_by_id, for an id drawn from meme_ids.
GetRandomEnter(r) ==
    LET t1 == [ZeroTrace EXCEPT !.counted = 1, !.stamped = 1]
        NotFound == /\ req_res' = [req_res EXCEPT ![r] = ErrResult("notfound")]
                    /\ req_pc' = [req_pc EXCEPT ![r] = "done"]
                    /\ req_trace' = [req_trace EXCEPT ![r] = t1]
                    /\ UNCHANGED <<cache_hits, cache_misses, req_meme>>
    IN
    /\ request_count' = request_count + 1
    /\ request_timestamps' = RecordRequest(request_timestamps, now)
    /\ recorded' = Append(recorded, now)
    /\ IF meme_ids = <<>>
       THEN NotFound
       ELSE \E i \in 1..Len(meme_ids) :
            LET id == meme_ids[i] IN
            IF ~HasMeme(memes, id)
            THEN NotFound
            ELSE IF CacheHas(content_cache, id, TtlSecs)
            THEN /\ cache_hits' = cache_hits + 1
                 /\ req_trace' = [req_trace EXCEPT ![r] =
                                     [t1 EXCEPT !.found = 1, !.hits = 1]]
                 /\ req_res' = [req_res EXCEPT ![r] =
                                   OkResult(id, content_cache[id].val)]
                 /\ req_pc' = [req_pc EXCEPT ![r] = "done"]
                 /\ UNCHANGED <<cache_misses, req_meme>>
            ELSE /\ cache_misses' = cache_misses + 1
                 /\ req_trace' = [req_trace EXCEPT ![r] =
                                     [t1 EXCEPT !.missed = 1, !.misses = 1]]
                 /\ req_meme' = [req_meme EXCEPT ![r] = memes[id]]
                 /\ req_pc' = [req_pc EXCEPT ![r] = "read"]
                 /\ UNCHANGED <<cache_hits, req_res>>
    /\ UNCHANGED <<resized_cache, content_cache, req_bytes>>

\* get_resized_image, lines 365-391: look the id up; without dimensions hand
\* over to get_by_id; else try the resized cache and on a miss fetch the
\* original through get_by_id.
GetResizedEnter(r, o, id, w, h) ==
    IF ~HasMeme(memes, id)
    THEN /\ req_res' = [req_res EXCEPT ![r] = ErrResult("notfound")]
         /\ req_pc' = [req_pc EXCEPT ![r] = "done"]
         /\ req_trace' = [req_trace EXCEPT ![r] = ZeroTrace]
         /\ UNCHANGED <<request_count, request_timestamps, cache_hits, cache_misses,
                        cacheVars, req_meme, req_bytes, recorded>>
    ELSE IF w = <<>> /\ h = <<>>
    THEN GetByIdFrom(r, o, id, ZeroTrace)
    ELSE IF CacheHas(resized_cache, ResizedKey(id, w, h), 2 * TtlSecs)
    THEN /\ cache_hits' = cache_hits + 1
         /\ req_trace' = [req_trace EXCEPT ![r] =
                             [ZeroTrace EXCEPT !.found = 1, !.hits = 1]]
         /\ req_res' = [req_res EXCEPT ![r] =
                           OkResult(id, resized_cache[ResizedKey(id, w, h)].val)]
         /\ req_pc' = [req_pc EXCEPT ![r] = "done"]
         /\ UNCHANGED <<request_count, request_timestamps, cache_misses,
                        cacheVars, req_meme, req_bytes, recorded>>
    ELSE GetByIdFrom(r, o, id, [ZeroTrace EXCEPT !.missed = 1])

\* list_memes: every entry of the map, sorted by id.
ListMemes(r) ==
    /\ req_res' = [req_res EXCEPT ![r] =
                      [kind |-> "list", id |-> 0,
                       val |-> [i \in 1..Cardinality(DOMAIN memes) |->
                                   memes[SortedSeq(DOMAIN memes)[i]]]]]
    /\ req_pc' = [req_pc EXCEPT ![r] = "done"]
    /\ UNCHANGED <<request_count, request_timestamps, cache_hits, cache_misses,
                   cacheVars, req_meme, req_bytes, recorded, req_trace>>

\* get_meme_count: get_total_memes is memes.len().
CountMemes(r) ==
    /\ req_res' = [req_res EXCEPT ![r] =
                      [kind |-> "count", id |-> 0, val |-> Cardinality(DOMAIN memes)]]
    /\ req_pc' = [req_pc EXCEPT ![r] = "done"]
    /\ UNCHANGED <<request_count, request_timestamps, cache_hits, cache_misses,
                   cacheVars, req_meme, req_bytes, recorded, req_trace>>

\* Mutant: get_statistics resets the hit and miss counters of the service
\* once it has read them.
GetStatistics_ResetsCounters(r) ==
    LET ts == PruneFront(request_timestamps, now) IN
    /\ request_timestamps' = ts
    /\ req_res' = [req_res EXCEPT ![r] =
                      [kind |-> "stats", id |-> 0,
                       val |-> [total_requests |-> request_count,
                                requests_last_minute |-> CountIn(ts, now, ONE_MINUTE),
                                requests_last_5min |-> CountIn(ts, now, FIVE_MINUTES),
                                requests_last_15min |-> CountIn(ts, now, FIFTEEN_MINUTES),
                                total_memes |-> Cardinality(DOMAIN memes),
                                last_updated |-> last_updated,
                                cache_hits |-> cache_hits,
                                cache_misses |-> cache_misses]]]
    /\ req_pc' = [req_pc EXCEPT ![r] = "done"]
    /\ cache_hits' = 0
    /\ cache_misses' = 0
    /\ UNCHANGED <<request_count, cacheVars,
                   req_meme, req_bytes, recorded, req_trace>>

\* get_statistics: the counters are read, and each get_requests_in_window
\* prunes the timestamps before it counts.
GetStatistics(r) ==
    LET ts == PruneFront(request_timestamps, now) IN
    /\ request_timestamps' = ts
    /\ req_res' = [req_res EXCEPT ![r] =
                      [kind |-> "stats", id |-> 0,
                       val |-> [total_requests |-> request_count,
                                requests_last_minute |-> CountIn(ts, now, ONE_MINUTE),
                                requests_last_5min |-> CountIn(ts, now, FIVE_MINUTES),
                                requests_last_15min |-> CountIn(ts, now, FIFTEEN_MINUTES),
                                total_memes |-> Cardinality(DOMAIN memes),
                                last_updated |-> last_updated,
                                cache_hits |-> cache_hits,
                                cache_misses |-> cache_misses]]]
    /\ req_pc' = [req_pc EXCEPT ![r] = "done"]
    /\ UNCHANGED <<request_count, cache_hits, cache_misses, cacheVars,
                   req_meme, req_bytes, recorded, req_trace>>

\* get_requests_in_window(window): the timestamps are pruned at the front,
\* then those within the window of now are counted.
GetRequestsInWindow(r, window) ==
    LET ts == PruneFront(request_timestamps, now) IN
    /\ request_timestamps' = ts
    /\ req_res' = [req_res EXCEPT ![r] =
                      [kind |-> "window", id |-> 0, val |-> CountIn(ts, now, window)]]
    /\ req_pc' = [req_pc EXCEPT ![r] = "done"]
    /\ UNCHANGED <<request_count, cache_hits, cache_misses, cacheVars,
                   req_meme, req_bytes, recorded, req_trace>>

\* The service call a handler makes for request o once it has its guard.
ServiceCall(r, o) ==
    CASE o.op = "get" -> GetByIdEnter(r, o, o.id)
      [] o.op = "random" -> GetRandomEnter(r)
      [] o.op = "resized" -> GetResizedEnter(r, o, o.id, o.w, o.h)
      [] o.op = "list" -> ListMemes(r)
      [] o.op = "count" -> CountMemes(r)
      [] o.op = "stats" -> GetStatistics(r)
      [] o.op = "window" -> GetRequestsInWindow(r, o.w[1])

\* A request arrives at an idle handler: state.read().await.  With the guard
\* granted at once the handler runs on into the service call; otherwise it
\* waits in the lock's queue.  The handlers are interchangeable, so the
\* lowest idle one takes the request.
ReqAccept(r, o) ==
    /\ ctor_pc = "done"
    /\ req_pc[r] = "idle"
    /\ \A q \in 1..(r - 1) : req_pc[q] # "idle"
    /\ UNCHANGED req_now
    /\ req_op' = [req_op EXCEPT ![r] = o]
    /\ AcquireRead(r)
    /\ IF CanRead(lock_writer, lock_readers, lock_queue)
       THEN ServiceCall(r, o)
       ELSE /\ req_pc' = [req_pc EXCEPT ![r] = "locked"]
            /\ UNCHANGED <<cacheVars, request_count, cache_hits, cache_misses,
                           request_timestamps, req_meme, req_bytes, req_res,
                           recorded, req_trace>>
    /\ UNCHANGED <<envVars, chanVars, catalogVars, now,
                   ctor_pc, loop_pc, reloadVars, rebuildHist, render_failed>>

\* The same, as one of at most n requests.
ReqStartN(r, o, n) ==
    /\ req_started < n
    /\ req_started' = req_started + 1
    /\ ReqAccept(r, o)

\* The same, as one of a stream of requests that does not end.
ReqArrive(r, o) ==
    /\ ReqAccept(r, o)
    /\ UNCHANGED req_started

ReqStart(r, o) == ReqStartN(r, o, MaxRequests)

\* A waiting handler is granted its read guard and enters the service call.
ReqResume(r) ==
    /\ req_pc[r] = "locked"
    /\ HoldsRead(r)
    /\ ServiceCall(r, req_op[r])
    /\ UNCHANGED <<envVars, chanVars, lockVars, catalogVars, now,
                   ctor_pc, loop_pc, reloadVars, req_op, req_started, req_now,
                   rebuildHist, render_failed>>

\* Mutant: a disk read that fails leaves an empty entry in the content cache.
ReqRead_CachesFailure(r) ==
    /\ req_pc[r] = "read"
    /\ LET id == req_meme[r].id
           f == req_meme[r].filename
           content == FileBytes(f, disk[f])
       IN  IF disk[f] = 0
           THEN /\ req_res' = [req_res EXCEPT ![r] = ErrResult("io")]
                /\ req_pc' = [req_pc EXCEPT ![r] = "done"]
                /\ content_cache' = CachePut(content_cache, id, <<>>)
                /\ UNCHANGED req_bytes
           ELSE /\ content_cache' = CachePut(content_cache, id, content)
                /\ IF Renders(req_op[r])
                   THEN /\ req_bytes' = [req_bytes EXCEPT ![r] = content]
                        /\ req_pc' = [req_pc EXCEPT ![r] = "render"]
                        /\ UNCHANGED req_res
                   ELSE /\ req_res' = [req_res EXCEPT ![r] = OkResult(id, content)]
                        /\ req_pc' = [req_pc EXCEPT ![r] = "done"]
                        /\ UNCHANGED req_bytes
    /\ UNCHANGED <<envVars, chanVars, lockVars, catalogVars, resized_cache, statVars,
                   ctor_pc, loop_pc, reloadVars, req_op, req_meme, req_started, req_now, histVars>>

\* get_by_id lines 357-360 (get_random 236-239): tokio::fs::read of the
\* meme's path; an error leaves through `?`, else the bytes are cached.
ReqRead(r) ==
    /\ req_pc[r] = "read"
    /\ LET id == req_meme[r].id
           f == req_meme[r].filename
           content == FileBytes(f, disk[f])
       IN  IF disk[f] = 0
           THEN /\ req_res' = [req_res EXCEPT ![r] = ErrResult("io")]
                /\ req_pc' = [req_pc EXCEPT ![r] = "done"]
                /\ UNCHANGED <<content_cache, req_bytes>>
           ELSE /\ content_cache' = CachePut(content_cache, id, content)
                /\ IF Renders(req_op[r])
                   THEN /\ req_bytes' = [req_bytes EXCEPT ![r] = content]
                        /\ req_pc' = [req_pc EXCEPT ![r] = "render"]
                        /\ UNCHANGED req_res
                   ELSE /\ req_res' = [req_res EXCEPT ![r] = OkResult(id, content)]
                        /\ req_pc' = [req_pc EXCEPT ![r] = "done"]
                        /\ UNCHANGED req_bytes
    /\ UNCHANGED <<envVars, chanVars, lockVars, catalogVars, resized_cache, statVars,
                   ctor_pc, loop_pc, reloadVars, req_op, req_meme, req_started, req_now, histVars>>

\* Mutant: a failed render leaves an entry in the resized cache.
ReqRender_CachesFailure(r) ==
    /\ req_pc[r] = "render"
    /\ LET id == req_op[r].id
           key == ResizedKey(id, req_op[r].w, req_op[r].h)
           out == Rendered(req_bytes[r], req_op[r].w, req_op[r].h)
       IN  /\ resized_cache' = CachePutBy(resized_cache, key,
                                   IF Decodable(req_bytes[r]) THEN out ELSE <<>>,
                                   <<req_op[r].w, req_op[r].h>>)
           /\ IF Decodable(req_bytes[r])
              THEN /\ cache_misses' = cache_misses + 1
                   /\ req_trace' = [req_trace EXCEPT ![r].misses = @ + 1]
                   /\ req_res' = [req_res EXCEPT ![r] = OkResult(id, out)]
                   /\ UNCHANGED render_failed
              ELSE /\ req_res' = [req_res EXCEPT ![r] = ErrResult("internal")]
                   /\ render_failed' = render_failed \cup {key}
                   /\ UNCHANGED <<cache_misses, req_trace>>
    /\ req_pc' = [req_pc EXCEPT ![r] = "done"]
    /\ UNCHANGED <<envVars, chanVars, lockVars, catalogVars, content_cache,
                   request_count, cache_hits, request_timestamps, now,
                   ctor_pc, loop_pc, reloadVars, req_op, req_meme, req_bytes,
                   req_started, req_now, rebuildHist, recorded>>

\* get_resized_image lines 393-426: decode, resize and encode on the
\* blocking pool; a failure is returned as Internal, a success is cached and
\* counted as a miss.
ReqRender(r) ==
    /\ req_pc[r] = "render"
    /\ LET id == req_op[r].id
           out == Rendered(req_bytes[r], req_op[r].w, req_op[r].h)
       IN  IF Decodable(req_bytes[r])
           THEN /\ resized_cache' = CachePutBy(resized_cache,
                                       ResizedKey(id, req_op[r].w, req_op[r].h), out,
                                       <<req_op[r].w, req_op[r].h>>)
                /\ cache_misses' = cache_misses + 1
                /\ req_trace' = [req_trace EXCEPT ![r].misses = @ + 1]
                /\ req_res' = [req_res EXCEPT ![r] = OkResult(id, out)]
                /\ UNCHANGED render_failed
           ELSE /\ req_res' = [req_res EXCEPT ![r] = ErrResult("internal")]
                /\ render_failed' = render_failed
                       \cup {ResizedKey(id, req_op[r].w, req_op[r].h)}
                /\ UNCHANGED <<resized_cache, cache_misses, req_trace>>
    /\ req_pc' = [req_pc EXCEPT ![r] = "done"]
    /\ UNCHANGED <<envVars, chanVars, lockVars, catalogVars, content_cache,
                   request_count, cache_hits, request_timestamps, now,
                   ctor_pc, loop_pc, reloadVars, req_op, req_meme, req_bytes,
                   req_started, req_now, rebuildHist, recorded>>

\* The response is built and the read guard is dropped.
ReqFinish(r) ==
    /\ req_pc[r] = "done"
    /\ Release(r)
    /\ req_pc' = [req_pc EXCEPT ![r] = "idle"]
    /\ req_op' = [req_op EXCEPT ![r] = NoOp]
    /\ req_meme' = [req_meme EXCEPT ![r] = NoMeme]
    /\ req_bytes' = [req_bytes EXCEPT ![r] = <<>>]
    /\ req_res' = [req_res EXCEPT ![r] = NoResult]
    /\ req_trace' = [req_trace EXCEPT ![r] = ZeroTrace]
    /\ req_now' = [req_now EXCEPT ![r] = 0]
    /\ UNCHANGED <<envVars, chanVars, catalogVars, cacheVars, statVars,
                   ctor_pc, loop_pc, reloadVars, req_started,
                   rebuildHist, recorded, render_failed>>

----------------------------------------------------------------------------
(***************************************************************************)
(* Specifications.                                                         *)
(***************************************************************************)

\* The clock read by Instant::now() and by the caches moves on by d seconds.
\* Time counts from the return of MemeService::new.
TickN(d, n) ==
    /\ ctor_pc = "done"
    /\ now + d <= n
    /\ now' = now + d
    /\ UNCHANGED <<envVars, chanVars, lockVars, catalogVars, cacheVars,
                   request_count, cache_hits, cache_misses, request_timestamps,
                   ctor_pc, loop_pc, reloadVars, reqVars, histVars>>

Tick(d) == TickN(d, MaxNow)

\* The caches built at lines 69-78 run their pending maintenance: a cache
\* that holds more entries than its max_capacity is cut back to it.  The
\* maintenance runs inside a later get or insert on the cache, so while some
\* handler is in a service call; the insert that takes a cache over its
\* capacity does not wait for it.
CacheMaintenance ==
    /\ \E r \in Req : req_pc[r] \in {"read", "render", "done"}
    /\ \/ Cardinality(DOMAIN content_cache) > MaxSize
       \/ Cardinality(DOMAIN resized_cache) > 2 * MaxSize
    /\ content_cache' \in Evicted(content_cache, MaxSize, TtlSecs)
    /\ resized_cache' \in Evicted(resized_cache, 2 * MaxSize, 2 * TtlSecs)
    /\ UNCHANGED <<envVars, chanVars, lockVars, catalogVars, statVars,
                   ctor_pc, loop_pc, reloadVars, reqVars, histVars>>

\* The steps of the constructor, the listener and reload_memes.
ServiceNext ==
    \/ \E p \in Rebuilders :
          \/ ReloadBegin(p)
          \/ \E f \in Files : ReloadScanEntry(p, f)
          \/ ReloadIoError(p)
          \/ ReloadScanEnd(p)
          \/ ReloadInstallMemes(p)
          \/ ReloadInstallIds(p)
          \/ ReloadInvalidate(p)
    \/ CtorLoad
    \/ CtorFinish
    \/ LoopReadLock
    \/ LoopSubscribe
    \/ LoopRecv
    \/ LoopWriteLock
    \/ LoopReloadDone
    \/ LoopBackoff

\* The service with the requests of the HTTP routes, over a directory in
\* which files are created and removed.
Next ==
    \/ \E f \in Files : FsCreateRemove(f)
    \/ ServiceNext
    \/ CacheMaintenance
    \/ \E r \in Req :
          \/ \E o \in RouteOps : ReqStart(r, o)
          \/ ReqResume(r)
          \/ ReqRead(r)
          \/ ReqFinish(r)

Spec == Init /\ [][Next]_vars

\* The service with the callers of get_resized_image, over a directory in
\* which files are rewritten.
ResizedNext ==
    \/ \E f \in Files, c \in Contents : FsRewrite(f, c)
    \/ ServiceNext
    \/ CacheMaintenance
    \/ \E r \in Req :
          \/ \E o \in ResizedOps : ReqStart(r, o)
          \/ ReqResume(r)
          \/ ReqRead(r)
          \/ ReqRender(r)
          \/ ReqFinish(r)

ResizedSpec == Init /\ [][ResizedNext]_vars

\* The calls of get_by_id, get_random and get_resized_image.
CacheOps ==
    [op : {"get"}, id : Ids, w : {<<>>}, h : {<<>>}]
    \cup [op : {"random"}, id : {0}, w : {<<>>}, h : {<<>>}]
    \cup ResizedOps

\* The service with one caller that makes its calls one after the other,
\* while files are rewritten and the caches do their maintenance.
CacheNext ==
    \/ \E f \in Files, c \in Contents : FsRewrite(f, c)
    \/ ServiceNext
    \/ CacheMaintenance
    \/ \E o \in CacheOps : ReqStartN(1, o, MaxCalls)
    \/ ReqResume(1)
    \/ ReqRead(1)
    \/ ReqRender(1)
    \/ ReqFinish(1)

CacheSpec == Init /\ [][CacheNext]_vars

\* get_by_id, and get_resized_image without dimensions.
DelegateOps ==
    [op : {"get"}, id : Ids, w : {<<>>}, h : {<<>>}]
    \cup {o \in ResizedOps : ~Renders(o)}

\* The service with one caller of get_by_id and of get_resized_image without
\* dimensions, over a directory in which files are created and removed.
DelegateNext ==
    \/ \E f \in Files : FsCreateRemove(f)
    \/ ServiceNext
    \/ CacheMaintenance
    \/ \E o \in DelegateOps : ReqStartN(1, o, MaxCalls)
    \/ ReqResume(1)
    \/ ReqRead(1)
    \/ ReqFinish(1)

DelegateSpec == Init /\ [][DelegateNext]_vars

\* The calls made while the clock runs: one id, with and without a width.
ClockOps == {o \in CacheOps : o.op # "random" /\ o.id = 1 /\ o.h = <<>>}

\* The service over a directory that does not change, with one caller that
\* makes its calls one after the other while time passes.
ClockNext ==
    \/ \E p \in Rebuilders :
          \/ ReloadBegin(p)
          \/ \E f \in Files : ReloadScanEntry(p, f)
          \/ ReloadIoError(p)
          \/ ReloadScanEnd(p)
          \/ ReloadInstallMemes(p)
          \/ ReloadInstallIds(p)
          \/ ReloadInvalidate(p)
    \/ CtorLoad
    \/ CtorFinish
    \/ LoopReadLock
    \/ LoopSubscribe
    \/ Tick(TtlSecs \div 2)
    \/ \E o \in ClockOps : ReqStartN(1, o, MaxCalls)
    \/ ReqRead(1)
    \/ ReqRender(1)
    \/ ReqFinish(1)

ClockSpec == Init /\ [][ClockNext]_vars

\* The calls that push a timestamp or count the timestamps: get_by_id on one
\* id, get_statistics, and get_requests_in_window over windows of up to
\* fifteen minutes.
WindowOps ==
    [op : {"get"}, id : {1}, w : {<<>>}, h : {<<>>}]
    \cup [op : {"stats"}, id : {0}, w : {<<>>}, h : {<<>>}]
    \cup [op : {"window"}, id : {0},
          w : {<<0>>, <<ONE_MINUTE>>, <<2 * ONE_MINUTE>>, <<FIVE_MINUTES>>,
               <<FIFTEEN_MINUTES>>},
          h : {<<>>}]

\* The service over a directory that does not change, with one caller whose
\* calls are spread over more than the history window: the clock moves by
\* minutes at first and by five minutes at any time.
WindowNext ==
    \/ \E p \in Rebuilders :
          \/ ReloadBegin(p)
          \/ \E f \in Files : ReloadScanEntry(p, f)
          \/ ReloadIoError(p)
          \/ ReloadScanEnd(p)
          \/ ReloadInstallMemes(p)
          \/ ReloadInstallIds(p)
          \/ ReloadInvalidate(p)
    \/ CtorLoad
    \/ CtorFinish
    \/ LoopReadLock
    \/ LoopSubscribe
    \/ TickN(ONE_MINUTE, MaxMinuteNow)
    \/ TickN(FIVE_MINUTES, MaxWindowNow)
    \/ \E o \in WindowOps : ReqStartN(1, o, MaxWindowCalls)
    \/ ReqRead(1)
    \/ ReqFinish(1)

WindowSpec == Init /\ [][WindowNext]_vars

\* One caller of get_by_id and get_resized_image over a directory in which
\* files are created and removed, so that ids leave the catalog.
StaleOps == {o \in CacheOps : o.op # "random" /\ (o.op = "resized" => Renders(o))}

StaleNext ==
    \/ \E f \in Files : FsCreateRemove(f)
    \/ ServiceNext
    \/ CacheMaintenance
    \/ \E o \in StaleOps : ReqStartN(1, o, MaxRequests)
    \/ ReqResume(1)
    \/ ReqRead(1)
    \/ ReqRender(1)
    \/ ReqFinish(1)

StaleSpec == Init /\ [][StaleNext]_vars

\* The service over a directory whose set of file names is settled before
\* the initial load: afterwards files are only rewritten, which makes the
\* listener rebuild the catalog over the same names.
StableNext ==
    \/ \E f \in Files : FsSettle(f)
    \/ \E f \in Files, c \in Contents : ctor_pc # "load" /\ FsRewrite(f, c)
    \/ ServiceNext

StableSpec == Init /\ [][StableNext]_vars

\* The listener with the scheduling tokio gives it: a task that can run is
\* run, a sleep ends, a guard that is free is granted.
ListenerNext ==
    \/ \E f \in Files : FsCreateRemove(f)
    \/ ServiceNext
    \/ \E r \in Req :
          \/ \E o \in RouteOps : o.op = "count" /\ ReqStart(r, o)
          \/ ReqResume(r)
          \/ ReqFinish(r)

ListenerFairness ==
    /\ WF_vars(LoopReadLock)
    /\ WF_vars(LoopSubscribe)
    /\ WF_vars(LoopBackoff)
    /\ WF_vars(LoopRecv)
    /\ WF_vars(LoopWriteLock)
    /\ WF_vars(LoopReloadDone)
    /\ \A p \in Rebuilders :
          WF_vars(ReloadBegin(p) \/ ReloadIoError(p) \/ ReloadScanEnd(p)
                  \/ ReloadInstallMemes(p) \/ ReloadInstallIds(p)
                  \/ ReloadInvalidate(p) \/ \E f \in Files : ReloadScanEntry(p, f))
    /\ \A r \in Req : WF_vars(ReqResume(r) \/ ReqFinish(r))

ListenerSpec == Init /\ [][ListenerNext]_vars /\ ListenerFairness

\* The same, with a directory that only changes once the service has been
\* constructed and whose scans meet no I/O error.
SignalNext ==
    \/ \E f \in Files : FsLate(f)
    \/ \E p \in Rebuilders :
          \/ ReloadBegin(p)
          \/ \E f \in Files : ReloadScanEntry(p, f)
          \/ ReloadScanEnd(p)
          \/ ReloadInstallMemes(p)
          \/ ReloadInstallIds(p)
          \/ ReloadInvalidate(p)
    \/ CtorLoad
    \/ CtorFinish
    \/ LoopReadLock
    \/ LoopSubscribe
    \/ LoopRecv
    \/ LoopWriteLock
    \/ LoopReloadDone
    \/ LoopBackoff
    \/ \E r \in Req :
          \/ \E o \in RouteOps : o.op = "count" /\ ReqStart(r, o)
          \/ ReqResume(r)
          \/ ReqFinish(r)

\* main awaits MemeService::new, so the constructor runs on as well.
SignalFairness ==
    /\ ListenerFairness
    /\ WF_vars(CtorLoad)
    /\ WF_vars(CtorFinish)

SignalSpec == Init /\ [][SignalNext]_vars /\ SignalFairness

----------------------------------------------------------------------------
(***************************************************************************)
(* Properties.                                                             *)
(***************************************************************************)

\* A handler is inside its service call or holds the result of it, with the
\* read guard it took still in hand.
Reading(r) == req_pc[r] \in {"read", "render", "done"}

\* Process p is inside reload_memes.
Rebuilding(p) == rl_pc[p] \in {"scan", "install", "ids", "invalidate", "ret"}

\* The Result of reload_memes is an error.
ReloadFailed(p) == rl_pc[p] = "ret" /\ rl_result[p] \in {"err_empty", "err_io"}

\* Every entry of cache c was inserted under the current catalog version.
AllCurrent(c) == \A k \in DOMAIN c : c[k].epoch = last_updated

\* C1: a reader never observes an empty or partially built catalog: whenever
\* a handler is reading, the map is the complete map of the last successful
\* scan, it is not empty, the id vector lists exactly its keys, and what
\* count and list returned is the size and the content of that map.
C1_ReadersSeeLastGoodCatalog ==
    \A r \in Req :
        Reading(r) =>
            /\ DOMAIN memes # {}
            /\ memes = last_good
            /\ Range(meme_ids) = DOMAIN memes
            /\ Len(meme_ids) = Cardinality(DOMAIN memes)
            /\ req_res[r].kind = "count" =>
                   req_res[r].val = Cardinality(DOMAIN last_good)
            /\ req_res[r].kind = "list" =>
                   Range(req_res[r].val) = {last_good[k] : k \in DOMAIN last_good}

\* C1 witness: list() has returned after the listener rebuilt the catalog.
C1_Witness ==
    /\ n_rebuilds >= 1
    /\ last_updated >= 2
    /\ \E r \in Req : req_pc[r] = "done" /\ req_res[r].kind = "list"

\* C2: a rebuild whose scan yields no regular file, or is cut short by an
\* I/O error, returns an error; and from its first step until its caller
\* has the error, the map, the id vector, the count, both caches and
\* last_updated stay as they were.
C2_FailedRebuildChangesNothing ==
    [][\A p \in Rebuilders :
          /\ (rl_pc[p] = "scan" /\ rl_pc'[p] # "scan"
                /\ (rl_count[p] = 0 \/ rl_todo[p] # {}))
                => (rl_pc'[p] = "ret" /\ rl_result'[p] \in {"err_empty", "err_io"})
          /\ (rl_pc'[p] = "scan" \/ rl_pc[p] = "scan" \/ ReloadFailed(p))
                => UNCHANGED <<memes, meme_ids, total_count, content_cache,
                               resized_cache, last_updated>>]_vars

\* C2 witness: the listener's rebuild found the directory empty and returned
\* the error, with a catalog installed and bytes in the content cache.
C2_Witness ==
    /\ ReloadFailed(LoopP)
    /\ rl_result[LoopP] = "err_empty"
    /\ DOMAIN memes # {}
    /\ DOMAIN content_cache # {}

\* C3: at most one rebuild executes at a time, and no handler reads the
\* catalog while a rebuild has installed the new map but not yet the id
\* vector, the count and the cache invalidation that go with it.
C3_OneRebuildNoReaderInside ==
    /\ ~(Rebuilding(CtorP) /\ Rebuilding(LoopP))
    /\ \A p \in Rebuilders :
           rl_pc[p] \in {"ids", "invalidate"} => \A r \in Req : ~Reading(r)

\* C3 witness: a handler waits for its guard while the listener's rebuild is
\* between installing the map and invalidating the caches.
C3_Witness ==
    /\ rl_pc[LoopP] \in {"ids", "invalidate"}
    /\ \E r \in Req : req_pc[r] = "locked"

\* C4 as stated: when the listener is idle again after the first burst of
\* signals, exactly one rebuild has been started.
C4_Original == (ListenerIdle /\ n_bursts = 1) => n_rebuilds = 1

C6_RebuildInvalidatesCaches ==
    /\ \A p \in Rebuilders :
           (rl_pc[p] = "ret" /\ rl_result[p] = "ok") =>
               (content_cache = EmptyMap /\ resized_cache = EmptyMap)
    /\ AllCurrent(content_cache)
    /\ AllCurrent(resized_cache)

\* C6 witness: a rebuild of the listener is about to invalidate the caches
\* and both hold entries.
C6_Witness ==
    /\ rl_pc[LoopP] = "invalidate"
    /\ DOMAIN content_cache # {}
    /\ DOMAIN resized_cache # {}

\* C7: whenever the receive has failed and the listener is in its backoff,
\* it comes back to waiting in rx.recv().
C7_ListenerResubscribes == [](loop_pc = "sleep" => <>(loop_pc = "recv"))

\* C7 witness: the listener subscribes again after signals had been accepted
\* by its previous receiver.
C7_Witness == loop_pc = "subscribing" /\ n_bursts >= 1

\* C8: a rebuild that fails in the listener leaves the listener subscribed
\* and receiving, with the signals still in the channel; the write guard is
\* dropped, every waiting handler gets its read guard, no handler's result
\* changes, and the catalog is the last good one.
C8_FailedRebuildContained ==
    [][(loop_pc = "reload" /\ ReloadFailed(LoopP) /\ loop_pc' # "reload")
          => /\ loop_pc' = "recv"
             /\ rx_cnt' = rx_cnt
             /\ rx_lag' = rx_lag
             /\ lock_writer' = 0
             /\ \A r \in Req : req_pc[r] = "locked" => r \in lock_readers'
             /\ req_res' = req_res
             /\ memes' = last_good
             /\ Range(meme_ids') = DOMAIN last_good]_vars

\* C8 witness: the listener's rebuild failed on an I/O error while a handler
\* waits for its guard and the next signal is in the channel.
C8_Witness ==
    /\ loop_pc = "reload"
    /\ ReloadFailed(LoopP)
    /\ rl_result[LoopP] = "err_io"
    /\ rx_lag = 1
    /\ \E r \in Req : req_pc[r] = "locked"

\* C9: get(id) returns NotFound exactly when id is not a key of the catalog;
\* the step that returns NotFound changes neither cache nor the hit and miss
\* counters.
C9_GetNotFoundIffAbsent ==
    /\ [](\A r \in Req :
             (req_op[r].op = "get" /\ Reading(r)) =>
                 (req_res[r].kind = "notfound" <=> req_op[r].id \notin DOMAIN memes))
    /\ [][\A r \in Req :
             (req_op'[r].op = "get" /\ req_res'[r].kind = "notfound"
                  /\ req_res[r].kind # "notfound")
                 => UNCHANGED <<content_cache, resized_cache, cache_hits,
                                cache_misses>>]_vars

\* C9 witness: get(id) has returned NotFound with bytes in the content cache.
C9_Witness ==
    /\ DOMAIN content_cache # {}
    /\ cache_misses >= 1
    /\ \E r \in Req :
           req_pc[r] = "done" /\ req_op[r].op = "get" /\ req_res[r].kind = "notfound"

\* C10: pick_random returns NotFound only with an empty id vector; what it
\* returns otherwise is an id of the id vector and of the catalog, with the
\* bytes of that id's file; while no rebuild holds the catalog, every id of
\* the vector is a key of the map.
C10_RandomPicksCatalogId ==
    /\ lock_writer = 0 => Range(meme_ids) \subseteq DOMAIN memes
    /\ \A r \in Req :
           (req_op[r].op = "random" /\ req_pc[r] = "done") =>
               /\ req_res[r].kind = "notfound" => meme_ids = <<>>
               /\ req_res[r].kind = "ok" =>
                      /\ req_res[r].id \in Range(meme_ids)
                      /\ req_res[r].id \in DOMAIN memes
                      /\ req_res[r].val[1] = memes[req_res[r].id].filename

\* C10 witness: pick_random has been served from the content cache out of a
\* catalog of more than one id.
C10_Witness ==
    /\ Len(meme_ids) >= 2
    /\ cache_hits >= 1
    /\ \E r \in Req :
           req_pc[r] = "done" /\ req_op[r].op = "random" /\ req_res[r].kind = "ok"

\* Handler r enters its service call in this step.
Enters(r) == req_pc[r] \in {"idle", "locked"} /\ req_pc'[r] \notin {"idle", "locked"}

\* Handler r has its result in this step.
Returns(r) == req_pc[r] # "done" /\ req_pc'[r] = "done"

\* C11: a get(id) that reads the file returns the bytes it leaves in the
\* content cache, and a get(id) that finds the id cataloged and its entry in
\* the content cache returns the bytes of that entry, adds one to the hit
\* counter and leaves the miss counter alone; so get(id) followed at once by
\* get(id) returns the same bytes twice and the second call is a hit.
C11_SecondGetHits ==
    [][\A r \in Req :
          LET id == req_op'[r].id IN
          /\ (req_pc[r] = "read" /\ req_op[r].op = "get" /\ req_res'[r].kind = "ok")
                => (/\ id \in DOMAIN content_cache'
                    /\ content_cache'[id].val = req_res'[r].val)
          /\ (Enters(r) /\ req_op'[r].op = "get" /\ id \in DOMAIN memes
                /\ id \in DOMAIN content_cache /\ now - content_cache[id].at < TtlSecs)
                => (/\ req_res'[r] = OkResult(id, content_cache[id].val)
                    /\ cache_hits' = cache_hits + 1
                    /\ cache_misses' = cache_misses)]_vars

\* C11 witness: the second get(id) has been served from the content cache
\* with the bytes the first one read, which the file no longer holds.
C11_Witness ==
    \E r \in Req :
        /\ req_pc[r] = "done" /\ req_op[r].op = "get" /\ req_res[r].kind = "ok"
        /\ req_trace[r].found = 1
        /\ cache_misses = 1 /\ cache_hits = 1
        /\ req_res[r].val[2] # disk[req_res[r].val[1]]

\* C12 as stated: every call of get_random, get_by_id or get_resized_image
\* that returns an asset has counted the request once and pushed one
\* timestamp.
C12_Original ==
    \A r \in Req :
        (req_pc[r] = "done" /\ req_res[r].kind = "ok"
            /\ req_op[r].op \in {"random", "get", "resized"})
        => (req_trace[r].counted = 1 /\ req_trace[r].stamped = 1)

\* C13 as stated: a get_resized_image(id, None, None) does in its first
\* step exactly what get_by_id(id) does in the same state: the same result
\* or error, the same changes to the request counter, the timestamps, the
\* hit and miss counters and the content cache.
C13_Original ==
    [][\A r \in Req :
          (Enters(r) /\ req_op'[r].op = "resized" /\ ~Renders(req_op'[r]))
          => GetByIdEnter(r, [req_op'[r] EXCEPT !.op = "get"], req_op'[r].id)]_vars

\* The resized-cache key of the call handler r serves.
KeyOf(r) == ResizedKey(req_op[r].id, req_op[r].w, req_op[r].h)

\* C14: a render that fails returns Internal and leaves the resized cache as
\* it was; a render that succeeds returns the rendered bytes and leaves them
\* in the resized cache under the call's key; and a call that finds its id
\* cataloged and an entry under its key returns that entry's bytes.
C14_FailedRenderNotCached ==
    [][\A r \in Req :
          /\ (req_pc[r] = "render" /\ Returns(r))
                => IF Decodable(req_bytes[r])
                   THEN /\ req_res'[r] = OkResult(req_op[r].id,
                                   Rendered(req_bytes[r], req_op[r].w, req_op[r].h))
                        /\ KeyOf(r) \in DOMAIN resized_cache'
                        /\ resized_cache'[KeyOf(r)].val = req_res'[r].val
                   ELSE /\ req_res'[r] = ErrResult("internal")
                        /\ resized_cache' = resized_cache
          /\ (Enters(r) /\ Renders(req_op'[r]) /\ req_op'[r].id \in DOMAIN memes
                /\ KeyOf(r)' \in DOMAIN resized_cache
                /\ now - resized_cache[KeyOf(r)'].at < 2 * TtlSecs)
                => req_res'[r] = OkResult(req_op'[r].id, resized_cache[KeyOf(r)'].val)]_vars

\* C14 witness: a call is served from the resized cache under a key whose
\* render had failed before.
C14_Witness ==
    \E r \in Req :
        /\ req_pc[r] = "done" /\ Renders(req_op[r]) /\ req_res[r].kind = "ok"
        /\ req_trace[r].found = 1 /\ req_trace[r].missed = 0
        /\ KeyOf(r) \in render_failed

\* C15 as stated: get_resized_image(id, n, None) and (id, None, n) use two
\* entries of the resized cache, so a call that names one dimension is
\* never served the entry that the call with the dimensions swapped put in.
C15_Original ==
    [][\A r \in Req :
          LET o == req_op'[r] IN
          (Enters(r) /\ o.op = "resized" /\ (o.w = <<>>) # (o.h = <<>>)
              /\ req_res'[r].kind = "ok")
          => resized_cache[KeyOf(r)'].by # <<o.h, o.w>>]_vars


\* The ids that get_by_id serves from the content cache, and the keys that
\* get_resized_image serves from the resized cache, at the current time.
ServedFromContent == {id \in DOMAIN memes : CacheHas(content_cache, id, TtlSecs)}
ServedFromResized ==
    {k \in DOMAIN resized_cache :
        k[1] \in DOMAIN memes /\ CacheHas(resized_cache, k, 2 * TtlSecs)}

\* C16 as stated: between calls, at most max_size ids are served from the
\* content cache without a disk read and at most 2 * max_size keys from the
\* resized cache without a render.
C16_Original ==
    (\A r \in Req : req_pc[r] \in {"idle", "done"})
    => /\ Cardinality(ServedFromContent) <= MaxSize
       /\ Cardinality(ServedFromResized) <= 2 * MaxSize


\* Handler r's call finds the id's bytes in the content cache in this step.
ContentHit(r) ==
    /\ Enters(r)
    /\ req_op'[r].op \in {"get", "resized"}
    /\ req_trace'[r].found = 1
    /\ Renders(req_op'[r]) => req_trace'[r].missed = 1

\* Handler r's call finds its key in the resized cache in this step.
ResizedHit(r) ==
    /\ Enters(r)
    /\ Renders(req_op'[r])
    /\ req_trace'[r].found = 1 /\ req_trace'[r].missed = 0

\* The keys whose entry in cache is new or has a new insertion time after
\* the step.
Reinserted(cache, cache2) ==
    {k \in DOMAIN cache2 : k \notin DOMAIN cache \/ cache2[k].at # cache[k].at}

\* C17: a call is served a content-cache entry only while at most ttl has
\* passed since the entry was inserted, and a resized-cache entry only while
\* at most 2 * ttl has passed; a hit leaves both caches, insertion times
\* included, as they were; and an entry's insertion time is only ever set,
\* to the current time, by the insert after a disk read or after a render.
C17_ServedWithinTtl ==
    [][/\ \A r \in Req :
            /\ ContentHit(r)
                  => /\ req_op'[r].id \in DOMAIN content_cache
                     /\ now - content_cache[req_op'[r].id].at <= TtlSecs
                     /\ content_cache' = content_cache
                     /\ resized_cache' = resized_cache
            /\ ResizedHit(r)
                  => /\ KeyOf(r)' \in DOMAIN resized_cache
                     /\ now - resized_cache[KeyOf(r)'].at <= 2 * TtlSecs
                     /\ content_cache' = content_cache
                     /\ resized_cache' = resized_cache
       /\ \A k \in Reinserted(content_cache, content_cache') :
            /\ content_cache'[k].at = now
            /\ \E r \in Req : req_pc[r] = "read" /\ req_pc'[r] # "read" /\ req_op[r].id = k
       /\ \A k \in Reinserted(resized_cache, resized_cache') :
            /\ resized_cache'[k].at = now
            /\ \E r \in Req : req_pc[r] = "render" /\ Returns(r) /\ KeyOf(r) = k]_vars

\* C17 witness: with no rebuild after the constructor's, a get(id) has been
\* a hit and a later get(id), ttl after the insert, has missed and read the
\* file again.
C17_Witness ==
    /\ n_rebuilds = 0 /\ now = TtlSecs
    /\ cache_hits = 1 /\ cache_misses = 2
    /\ req_pc[1] = "done" /\ req_op[1].op = "get" /\ req_res[1].kind = "ok"
    /\ req_trace[1].missed = 1
    /\ content_cache[req_op[1].id].at = now


\* The number of the requests recorded so far whose timestamp t has
\* now - t <= w.
RecordedWithin(w) == Cardinality({i \in 1..Len(recorded) : now - recorded[i] <= w})

RebuildStep == \E p \in Rebuilders : rl_pc'[p] # rl_pc[p]

\* C19: no step lowers the request, hit or miss counter of the service; the
\* steps of a rebuild, whether it succeeds or fails, and a statistics read
\* leave all three as they are.
C19_CountersMonotonic ==
    [][/\ request_count' >= request_count
       /\ cache_hits' >= cache_hits
       /\ cache_misses' >= cache_misses
       /\ (\/ RebuildStep
           \/ \E r \in Req : Enters(r) /\ req_op'[r].op = "stats")
          => /\ request_count' = request_count
             /\ cache_hits' = cache_hits
             /\ cache_misses' = cache_misses]_vars

\* C19 witness: the listener has run two rebuilds, of which one succeeded
\* and one failed, a request has missed the cache, and a statistics read
\* after the successful rebuild has reported the counters, which still stand.
C19_Witness ==
    /\ n_rebuilds >= 2 /\ last_updated = 2 /\ ListenerIdle
    /\ content_cache = EmptyMap
    /\ \E r \in Req :
          /\ req_pc[r] = "done" /\ req_res[r].kind = "stats"
          /\ req_res[r].val.last_updated = 2
          /\ req_res[r].val.total_requests = 1 /\ req_res[r].val.cache_misses = 1
          /\ request_count = 1 /\ cache_misses = 1


\* C20 as stated: when a call returns, each of its lookups in the content
\* cache or the resized cache that found an entry has added one to the hit
\* counter and each that found none has added one to the miss counter, also
\* when the call returns an error.
C20_Original ==
    \A r \in Req :
        req_pc[r] = "done"
        => /\ req_trace[r].hits = req_trace[r].found
           /\ req_trace[r].misses = req_trace[r].missed


\* The catalog is an installed snapshot: no rebuild stands between the
\* install of the map (line 161) and that of the id vector (line 163).
Installed == \A p \in Rebuilders : rl_pc[p] # "ids"

\* C21: in every installed snapshot the id vector has no duplicates, its
\* elements are exactly the keys of the map, and the Meme stored under key k
\* has id k.
C21_SnapshotIdsUnique ==
    Installed =>
        /\ Cardinality(Range(meme_ids)) = Len(meme_ids)
        /\ Range(meme_ids) = DOMAIN memes
        /\ \A k \in DOMAIN memes : memes[k].id = k

\* C21 witness: the listener has installed a snapshot of two ids built from
\* three files, two of which hash to the same id.
C21_Witness ==
    /\ Installed /\ lock_writer = 0
    /\ n_rebuilds >= 1 /\ last_updated >= 2
    /\ total_count = 3
    /\ Len(meme_ids) = 2


\* C22 as stated: over a directory whose file names do not change, every
\* rebuild gives every file the id it had and leaves every id resolving to
\* the file name it resolved to, whatever the order of the scan.
C22_Original ==
    [][ctor_pc = "done"
          => /\ \A k \in DOMAIN memes' : memes'[k].id = HashId(memes'[k].filename)
             /\ memes' = memes]_vars


\* C23: what list() has returned holds one item for every entry of the
\* catalog and nothing else, in strictly ascending order of id, and is as
\* long as what count() returns to a handler reading the same snapshot.
C23_ListSortedMatchesCount ==
    \A r \in Req :
        (req_pc[r] = "done" /\ req_res[r].kind = "list") =>
            LET v == req_res[r].val IN
            /\ Len(v) = Cardinality(DOMAIN memes)
            /\ Range(v) = {memes[k] : k \in DOMAIN memes}
            /\ \A i \in 1..(Len(v) - 1) : v[i].id < v[i + 1].id
            /\ \A q \in Req :
                   (req_pc[q] = "done" /\ req_res[q].kind = "count")
                   => req_res[q].val = Len(v)

\* C23 witness: one handler holds a list of two items and another the count,
\* both read from a snapshot that the listener installed.
C23_Witness ==
    /\ last_updated >= 2
    /\ \E r, q \in Req :
          /\ req_pc[r] = "done" /\ req_res[r].kind = "list" /\ Len(req_res[r].val) = 2
          /\ req_pc[q] = "done" /\ req_res[q].kind = "count"


\* The catalog is what a scan of the directory as it is now would build: its
\* Memes are files of the directory stored under their ids, and every file
\* of the directory has its id in the catalog.
CatalogOfDisk ==
    /\ \A k \in DOMAIN memes :
          disk[memes[k].filename] # 0 /\ HashId(memes[k].filename) = k
    /\ \A f \in Files : disk[f] # 0 => HashId(f) \in DOMAIN memes

\* C24 as stated: every change made after the service is constructed is
\* followed by a rebuild that starts after it, so once the changes have
\* stopped the catalog is, from some point on, that of the directory
\* (unless the directory is left empty, which a rebuild refuses).
C24_Original ==
    <>[](\/ ctor_pc = "failed"
         \/ \A f \in Files : disk[f] = 0
         \/ CatalogOfDisk)


\* No rebuild stands between the install of the new map (line 161) and the
\* invalidation of the caches (lines 165-166); in between the rebuild holds
\* the write guard and nothing reads the caches.
Invalidated == \A p \in Rebuilders : rl_pc[p] \notin {"ids", "invalidate"}

\* C25: outside that section of a rebuild, every id with a live entry in
\* the content cache and every id in a live key of the resized cache is in
\* the catalog, and every entry was inserted under the catalog in place: a
\* call that began before a rebuild inserts before that rebuild starts.
C25_CachedIdsInCatalog ==
    Invalidated =>
        /\ \A id \in LiveKeys(content_cache, TtlSecs) :
              id \in DOMAIN memes /\ content_cache[id].epoch = last_updated
        /\ \A k \in LiveKeys(resized_cache, 2 * TtlSecs) :
              k[1] \in DOMAIN memes /\ resized_cache[k].epoch = last_updated

\* C25 witness: a call has read and rendered a file and left both in the
\* caches while the listener's rebuild waits for the write guard, and the
\* file is gone from the directory.
C25_Witness ==
    /\ loop_pc = "reload" /\ rl_pc[LoopP] = "begin" /\ lock_writer = 0
    /\ req_pc[1] = "done" /\ req_res[1].kind = "ok" /\ Renders(req_op[1])
    /\ req_trace[1].missed = 2
    /\ disk[memes[req_op[1].id].filename] = 0
    /\ req_op[1].id \in DOMAIN content_cache
    /\ KeyOf(1) \in DOMAIN resized_cache


\* C26 as stated: a get_resized_image that names a dimension is served an
\* entry of the resized cache only if the call that inserted it had the
\* same id, the same width (given or not) and the same height (given or
\* not); a dimension of 0 and a dimension not given are told apart.
C26_Original ==
    [][\A r \in Req :
          ResizedHit(r)
          => /\ KeyOf(r)'[1] = req_op'[r].id
             /\ resized_cache[KeyOf(r)'].by = <<req_op'[r].w, req_op'[r].h>>]_vars


\* C27 as stated: once a rebuild has succeeded, what count() returns, the
\* size of the catalog, is the number of regular files the scan found,
\* which is the total_count the rebuild recorded.
C27_Original ==
    (ctor_pc = "done" /\ lock_writer = 0)
    => Cardinality(DOMAIN memes) = total_count


----------------------------------------------------------------------------
(***************************************************************************)
(* The handlers statement by statement.  #[tokio::main] (main.rs:40)       *)
(* builds the multi-thread runtime, so two handlers that hold read guards  *)
(* run on different worker threads and their accesses to the atomics and   *)
(* to the request_timestamps mutex interleave between any two statements.  *)
(***************************************************************************)

MaxThreadCalls == 3

\* The windows get_statistics asks for, in the order of statistics.rs:104-106.
StatsWindows == <<ONE_MINUTE, FIVE_MINUTES, FIFTEEN_MINUTES>>

\* Positions of a get_requests_in_window call: before `now` is read (line
\* 270) and before the mutex is taken (line 271); the index is the call's
\* place among the three of get_statistics.
NowPc == <<"now1", "now2", "now3">>
CountPc == <<"count1", "count2", "count3">>

ThreadOps ==
    [op : {"get"}, id : {1}, w : {<<>>}, h : {<<>>}]
    \cup [op : {"stats"}, id : {0}, w : {<<>>}, h : {<<>>}]
    \cup [op : {"window"}, id : {0}, w : {<<0>>, <<FIFTEEN_MINUTES>>}, h : {<<>>}]

\* A request arrives at an idle handler and state.read().await returns the
\* guard: no rebuild runs once the constructor is done, the directory being
\* left alone.
ThreadEnter(r, o) ==
    /\ ctor_pc = "done"
    /\ req_pc[r] = "idle"
    /\ \A q \in 1..(r - 1) : req_pc[q] # "idle"
    /\ req_started < MaxThreadCalls
    /\ CanRead(lock_writer, lock_readers, lock_queue)
    /\ AcquireRead(r)
    /\ req_started' = req_started + 1
    /\ req_op' = [req_op EXCEPT ![r] = o]
    /\ req_pc' = [req_pc EXCEPT ![r] =
                     CASE o.op = "get" -> "fetch_add"
                       [] o.op = "stats" -> "total"
                       [] o.op = "window" -> NowPc[3]]
    /\ UNCHANGED <<envVars, chanVars, catalogVars, cacheVars, statVars,
                   ctor_pc, loop_pc, reloadVars, req_meme, req_bytes, req_res,
                   req_now, histVars>>

\* get_by_id, line 329: request_count.fetch_add(1).
ThreadFetchAdd(r) ==
    /\ req_pc[r] = "fetch_add"
    /\ request_count' = request_count + 1
    /\ req_trace' = [req_trace EXCEPT ![r] = [ZeroTrace EXCEPT !.counted = 1]]
    /\ req_pc' = [req_pc EXCEPT ![r] = "record"]
    /\ UNCHANGED <<envVars, chanVars, lockVars, catalogVars, cacheVars,
                   cache_hits, cache_misses, request_timestamps, now,
                   ctor_pc, loop_pc, reloadVars, req_op, req_meme, req_bytes,
                   req_res, req_started, req_now, rebuildHist, recorded,
                   render_failed>>

\* get_by_id, lines 330-356: record_request takes the mutex, reads the clock,
\* prunes and pushes; then the id is looked up.
ThreadRecord(r) ==
    /\ req_pc[r] = "record"
    /\ request_timestamps' = RecordRequest(request_timestamps, now)
    /\ recorded' = Append(recorded, now)
    /\ GetByIdLookup(r, req_op[r], req_op[r].id,
                     [req_trace[r] EXCEPT !.stamped = @ + 1])
    /\ UNCHANGED <<envVars, chanVars, lockVars, catalogVars, cacheVars,
                   request_count, now, ctor_pc, loop_pc, reloadVars, req_op,
                   req_started, req_now, rebuildHist, render_failed>>

\* get_statistics, lines 71-103: the hit and miss counters, the catalog's
\* size and date and then request_count are read.
ThreadTotal(r) ==
    /\ req_pc[r] = "total"
    /\ req_res' = [req_res EXCEPT ![r] =
                      [kind |-> "stats", id |-> 0,
                       val |-> [total_requests |-> request_count,
                                requests_last_minute |-> 0,
                                requests_last_5min |-> 0,
                                requests_last_15min |-> 0,
                                total_memes |-> Cardinality(DOMAIN memes),
                                last_updated |-> last_updated,
                                cache_hits |-> cache_hits,
                                cache_misses |-> cache_misses]]]
    /\ req_pc' = [req_pc EXCEPT ![r] = NowPc[1]]
    /\ UNCHANGED <<envVars, chanVars, lockVars, catalogVars, cacheVars, statVars,
                   ctor_pc, loop_pc, reloadVars, req_op, req_meme, req_bytes,
                   req_started, req_now, histVars>>

\* get_requests_in_window, line 270: let now = Instant::now().
ThreadNow(r, i) ==
    /\ req_pc[r] = NowPc[i]
    /\ req_now' = [req_now EXCEPT ![r] = now]
    /\ req_pc' = [req_pc EXCEPT ![r] = CountPc[i]]
    /\ UNCHANGED <<envVars, chanVars, lockVars, catalogVars, cacheVars, statVars,
                   ctor_pc, loop_pc, reloadVars, req_op, req_meme, req_bytes,
                   req_res, req_started, histVars>>

\* get_requests_in_window, lines 271-285: under the mutex the front is pruned
\* against the call's `now` and the timestamps within the window of it are
\* counted.  duration_since is zero for a timestamp later than `now`.
ThreadCountIn(r, i) ==
    LET ts == PruneFront(request_timestamps, req_now[r])
        n(w) == CountIn(ts, req_now[r], w)
    IN
    /\ req_pc[r] = CountPc[i]
    /\ request_timestamps' = ts
    /\ req_res' = [req_res EXCEPT ![r] =
          CASE req_op[r].op = "window" ->
                  [kind |-> "window", id |-> 0, val |-> n(req_op[r].w[1])]
            [] req_op[r].op = "stats" /\ i = 1 ->
                  [@ EXCEPT !.val.requests_last_minute = n(StatsWindows[1])]
            [] req_op[r].op = "stats" /\ i = 2 ->
                  [@ EXCEPT !.val.requests_last_5min = n(StatsWindows[2])]
            [] req_op[r].op = "stats" /\ i = 3 ->
                  [@ EXCEPT !.val.requests_last_15min = n(StatsWindows[3])]]
    /\ req_pc' = [req_pc EXCEPT ![r] = IF i = 3 THEN "done" ELSE NowPc[i + 1]]
    /\ UNCHANGED <<envVars, chanVars, lockVars, catalogVars, cacheVars,
                   request_count, cache_hits, cache_misses, now,
                   ctor_pc, loop_pc, reloadVars, req_op, req_meme, req_bytes,
                   req_started, req_now, histVars>>

\* Two handlers on two worker threads over a directory that does not change,
\* their calls spread over more than the history window: the clock moves by
\* eight minutes at a time.
ThreadNext ==
    \/ \E p \in Rebuilders :
          \/ ReloadBegin(p)
          \/ \E f \in Files : ReloadScanEntry(p, f)
          \/ ReloadIoError(p)
          \/ ReloadScanEnd(p)
          \/ ReloadInstallMemes(p)
          \/ ReloadInstallIds(p)
          \/ ReloadInvalidate(p)
    \/ CtorLoad
    \/ CtorFinish
    \/ LoopReadLock
    \/ LoopSubscribe
    \/ TickN(8 * ONE_MINUTE, MaxWindowNow)
    \/ \E r \in Req :
          \/ \E o \in ThreadOps : ThreadEnter(r, o)
          \/ ThreadFetchAdd(r)
          \/ ThreadRecord(r)
          \/ ThreadTotal(r)
          \/ \E i \in 1..3 : ThreadNow(r, i)
          \/ \E i \in 1..3 : ThreadCountIn(r, i)
          \/ ReqRead(r)
          \/ ReqFinish(r)

ThreadSpec == Init /\ [][ThreadNext]_vars


\* The retained timestamps are in non-decreasing order.
NonDecreasing(ts) == \A i \in 1..(Len(ts) - 1) : ts[i] <= ts[i + 1]

\* No timestamp of ts is more than the history window older than t.
AllWithinHistory(ts, t) == \A i \in 1..Len(ts) : t - ts[i] <= REQUEST_HISTORY_WINDOW

\* C28: however the record_request and get_requests_in_window calls of two
\* handlers interleave, the retained timestamps stay in non-decreasing
\* order, and at the end of each such call none of them is more than fifteen
\* minutes older than the instant that call took as `now`.
C28_TimestampsOrderedAndPruned ==
    [][/\ NonDecreasing(request_timestamps')
       /\ \A r \in Req :
             /\ (req_pc[r] = "record" /\ req_pc'[r] # "record")
                => AllWithinHistory(request_timestamps', now)
             /\ (\E i \in 1..3 : req_pc[r] = CountPc[i] /\ req_pc'[r] # CountPc[i])
                => AllWithinHistory(request_timestamps', req_now[r])]_vars

\* C28 witness: a get_requests_in_window call that took its `now` before a
\* later timestamp was pushed has completed, after a timestamp was pruned.
C28_Witness ==
    /\ req_pc[2] = "done"
    /\ req_res[2].kind = "window"
    /\ Len(recorded) > Len(request_timestamps)
    /\ request_timestamps # <<>>
    /\ req_now[2] < request_timestamps[Len(request_timestamps)]

\* C29 as stated: in every result of get_statistics, also with another
\* request running beside it, requests_last_minute <= requests_last_5min <=
\* requests_last_15min <= total_requests.
C29_Original ==
    \A r \in Req :
        (req_pc[r] = "done" /\ req_res[r].kind = "stats")
        => /\ req_res[r].val.requests_last_minute <= req_res[r].val.requests_last_5min
           /\ req_res[r].val.requests_last_5min <= req_res[r].val.requests_last_15min
           /\ req_res[r].val.requests_last_15min <= req_res[r].val.total_requests


\* A get_resized_image that renders, and the requests that may arrive beside
\* it: get by id, random, list and count.
BesideOps ==
    {o \in ResizedOps : Renders(o) /\ o.id = 1}
    \cup {o \in RouteOps : o.op # "stats" /\ o.id \in {0, 1}}

\* The service with a resize in one handler and the other requests in the
\* other, over a directory in which files are rewritten.
BesideNext ==
    \/ \E f \in Files, c \in Contents : FsRewrite(f, c)
    \/ ServiceNext
    \/ CacheMaintenance
    \/ \E r \in Req :
          \/ \E o \in BesideOps : ReqStart(r, o)
          \/ ReqResume(r)
          \/ ReqRead(r)
          \/ ReqRender(r)
          \/ ReqFinish(r)

BesideSpec == Init /\ [][BesideNext]_vars

\* Handler r awaits the spawn_blocking of its resize, with its read guard.
Resizing(r) == req_pc[r] = "render" /\ HoldsRead(r)

\* C30 as stated: while a handler waits for its resize, no get, list, count
\* or random request that has arrived waits for it, a pending rebuild or not.
C30_Original ==
    \A r \in Req, q \in Req :
        ~(/\ Resizing(r)
          /\ req_pc[q] = "locked"
          /\ req_op[q].op \in {"get", "list", "count", "random"})


\* The requests that only read the catalog, and a get_resized_image that
\* goes to the disk and to the render.
StreamOps == {o \in RouteOps : o.op \in {"list", "count"}}
WorkOps == {o \in ResizedOps : o.id = 1 /\ o.w = <<0>> /\ o.h = <<>>}
MaxWork == 1

\* The service under a stream of list and count requests that does not end,
\* with a request that reads the disk and renders, over a directory in which
\* files are created and removed once the service is constructed.
StreamNext ==
    \/ \E f \in Files : FsLate(f)
    \/ ServiceNext
    \/ \E r \in Req :
          \/ \E o \in StreamOps : ReqArrive(r, o)
          \/ \E o \in WorkOps : ReqStartN(r, o, MaxWork)
          \/ ReqResume(r)
          \/ ReqRead(r)
          \/ ReqRender(r)
          \/ ReqFinish(r)

\* Every task the runtime has spawned is polled again, and every disk read,
\* directory scan and render returns.
StreamFairness ==
    /\ ListenerFairness
    /\ \A r \in Req : WF_vars(ReqRead(r) \/ ReqRender(r))

StreamSpec == Init /\ [][StreamNext]_vars /\ StreamFairness

\* C31: every request that has started returns, and every rebuild the
\* listener has received a signal for gets the write guard and returns it,
\* also while list and count requests keep arriving.
C31_NoStarvation ==
    /\ \A r \in Req : (req_pc[r] # "idle") ~> (req_pc[r] = "idle")
    /\ (loop_pc = "write") ~> HoldsWrite(LoopP)
    /\ HoldsWrite(LoopP) ~> (loop_pc = "recv" /\ ~HoldsWrite(LoopP))

\* C31 witness: the listener waits for the write guard behind a handler that
\* is in its service call, and a request that arrived later waits behind it.
C31_Witness ==
    /\ loop_pc = "reload"
    /\ lock_queue = <<<<LoopP, "w">>, <<2, "r">>>>
    /\ Reading(1)
    /\ HoldsRead(1)


\* The disk read of handler r's get_by_id fails in this step.
FailedRead(r) ==
    /\ req_pc[r] = "read"
    /\ req_op[r].op = "get"
    /\ Returns(r)
    /\ req_res'[r].kind # "ok"

\* C32 as stated: a get(id) whose disk read fails returns Internal.
C32_Original ==
    [][\A r \in Req : FailedRead(r) => req_res'[r] = ErrResult("internal")]_vars

\* C32, amended: a get(id) for a cataloged id whose disk read fails returns
\* the I/O error, leaves the content cache and the catalog as they were and
\* leaves no entry for the id; and a get(id) that finds the id cataloged and
\* no entry for it counts a miss and goes to the disk.
C32_FailedReadNotCached ==
    [][\A r \in Req :
          /\ FailedRead(r)
                => /\ req_res'[r] = ErrResult("io")
                   /\ content_cache' = content_cache
                   /\ catalogVars' = catalogVars
                   /\ ~CacheHas(content_cache, req_op[r].id, TtlSecs)'
          /\ (Enters(r) /\ req_op'[r].op = "get" /\ req_op'[r].id \in DOMAIN memes
                /\ ~CacheHas(content_cache, req_op'[r].id, TtlSecs))
                => /\ req_pc'[r] = "read"
                   /\ cache_misses' = cache_misses + 1
                   /\ content_cache' = content_cache]_vars

\* C32 witness: the second get_by_id is at its disk read, for an id whose
\* file is gone, after a first call that missed and left the cache empty.
C32_Witness ==
    /\ req_pc[1] = "read"
    /\ req_op[1].op = "get"
    /\ disk[req_meme[1].filename] = 0
    /\ request_count = 2
    /\ cache_misses = 2
    /\ n_rebuilds = 0
    /\ content_cache = EmptyMap
    /\ Cardinality({f \in Files : disk[f] = 0}) = NumFiles - 1

=============================================================================
